---- MODULE Spec2Model ----
(***************************************************************************)
(* Clip playback orchestration of Shotify (src/src/App.tsx): the React     *)
(* state and refs of the App component, the handlers playTrackAtIndex,     *)
(* handlePause, handleResume, handleNext, handlePrev, and the asynchronous *)
(* continuations they leave behind (remote calls in flight, interval       *)
(* timers, audio elements, the settle timeout).                            *)
(*                                                                         *)
(* The session is modelled after login (accessToken present) with a track  *)
(* list loaded.  All handlers run to completion on one event loop; every   *)
(* action below is one handler or one callback.                            *)
(***************************************************************************)
EXTENDS Integers, Sequences, FiniteSets, Bags, TLC

\* ---------------------------------------------------------------- constants
SDK_CLIP_START_MS == 45000
SDK_CLIP_DURATION_MS == 60000
PREVIEW_CLIP_DURATION_MS == 30000
SETTLE_DELAY_MS == 300

\* ------------------------------------------------------------------- bounds
\* Real time that passes between two firings of the interval timers.  The
\* interval is nominally 100 ms; a firing may be arbitrarily late.
TickMs == 20000
\* Interval timers alive at once (including leaked ones).
MaxTimers == 2
\* Asynchronous continuations pending at once.
MaxPending == 2
\* Accepted playTrackAtIndex calls per run (caps songsPlayed).
MaxPlays == 3
\* Inputs from outside per run: user intents, readiness events of the SDK,
\* changes of the interstitial selection.
MaxInputs == 4

\* null of a string-valued reference (deviceId, a sound url)
Null == "null"
\* null of currentIndex (indices are 0-based as in the source)
NoIndex == -1
\* the closure environment of a continuation that reads none
NoEnv == [tracks |-> <<>>, playerReady |-> FALSE, deviceId |-> Null]
\* audioRef.current = null
NoAudio == [state |-> "none", clip |-> 0, origin |-> "none", index |-> NoIndex,
            env |-> NoEnv, ok |-> FALSE, currentTime |-> 0]
\* shuffle has not been entered (its loop variable has no value)
NotCalled == -2
\* no refused intent
NoIntent == [op |-> "none", index |-> NoIndex]

Min(a, b) == IF a < b THEN a ELSE b

\* A track is its two nullable references (uri, previewUrl); TRUE = present.
Track(u, p) == [uri |-> u, previewUrl |-> p]
FullTrack == Track(TRUE, FALSE)
PreviewTrack == Track(FALSE, TRUE)
BothTrack == Track(TRUE, TRUE)
DeadTrack == Track(FALSE, FALSE)

\* Track lists a session is started with.
TrackLists == { <<BothTrack, DeadTrack, PreviewTrack>>, <<BothTrack>> }

\* The user's playlists (setPlaylists, 289) and the items the playlist
\* endpoint returns for each (309-343), in the order returned.
Playlist ==
  [A |-> <<BothTrack, DeadTrack, PreviewTrack>>,
   B |-> <<BothTrack>>,
   C |-> <<FullTrack, FullTrack, FullTrack>>,
   D |-> <<PreviewTrack, BothTrack>>]
\* the playlist whose items, in some order, the list ts is
PlaylistOf(ts) ==
  CHOOSE p \in DOMAIN Playlist :
    /\ Len(Playlist[p]) = Len(ts)
    /\ \A t \in {FullTrack, PreviewTrack, BothTrack, DeadTrack} :
         Cardinality({k \in DOMAIN ts : ts[k] = t})
           = Cardinality({k \in DOMAIN ts : Playlist[p][k] = t})

\* In-between sounds offered by the selector (IN_BETWEEN_SOUNDS).
IN_BETWEEN_SOUNDS == {"beep"}

accessToken == "token"

VARIABLES
  tracks,                     \* useState tracks
  playerReady,                \* useState playerReady
  deviceId,                   \* useState deviceId
  selectedInBetweenSoundUrl,  \* useState / selectedInBetweenSoundRef
  currentIndex,               \* useState currentIndex (0-based, or NoIndex)
  isPlaying,                  \* useState isPlaying
  clipElapsedMs,              \* useState clipElapsedMs
  clipDurationMs,             \* useState clipDurationMs
  songsPlayed,                \* useState songsPlayed
  clipTimerRef,               \* id of the timer the ref holds, 0 = null
  audioRef,                   \* the preview audio element the ref holds
  useSdkRef,                  \* useRef useSdkRef
  hasAdvancedRef,             \* useRef hasAdvancedRef
  timers,                     \* live window.setInterval timers
  pending,                    \* bag of continuations waiting to run
  remotePlaying,              \* the remote device is playing (set by remote calls)
  advances,                   \* per clip: advance chains it has started
  last,                       \* the call the last handler refused, if any
  log,                        \* the calls made on the backends (when recorded)
  inputs,                     \* inputs from outside received so far
  selectedPlaylistId,         \* useState selectedPlaylistId
  tracksLoading,              \* useState tracksLoading
  userProfiles,               \* useState userProfiles: the playlist they are of
  fetches,                    \* bag of playlist fetches in flight
  shuffleArray,               \* shuffle: its argument array
  shuffleOut,                 \* shuffle: const out
  shuffleI                    \* shuffle: the loop variable i, or NotCalled

vars == <<tracks, playerReady, deviceId, selectedInBetweenSoundUrl,
          currentIndex, isPlaying, clipElapsedMs, clipDurationMs, songsPlayed,
          clipTimerRef, audioRef, useSdkRef, hasAdvancedRef, timers, pending,
          remotePlaying, advances, last, log, inputs,
          selectedPlaylistId, tracksLoading, userProfiles, fetches,
          shuffleArray, shuffleOut, shuffleI>>

\* the playlist being shown and its loading
listVars == <<selectedPlaylistId, tracksLoading, userProfiles, fetches>>
\* the locals of a call of shuffle
shuffleVars == <<shuffleArray, shuffleOut, shuffleI>>
envVars == <<tracks, playerReady, deviceId, selectedInBetweenSoundUrl,
             listVars, shuffleVars>>
\* left alone by every callback
cbVars == <<tracks, playerReady, deviceId, selectedInBetweenSoundUrl, inputs,
            listVars, shuffleVars>>

TimerIds == 1..MaxTimers

\* The values a useCallback closure captures at render time
\* (deps [tracks, accessToken, playerReady, deviceId]).
Env == [tracks |-> tracks, playerReady |-> playerReady, deviceId |-> deviceId]

\* tracks[index] is defined (not undefined)
HasTrack(env, index) == index \in 0..(Len(env.tracks) - 1)

\* tracks[index], 0-based
TrackAt(env, index) == env.tracks[index + 1]

\* Faulty variant: the preview is preferred when the track has both references
canUseSdk_PreviewFirst(env, index) ==
  /\ HasTrack(env, index)
  /\ env.playerReady /\ env.deviceId # Null /\ TrackAt(env, index).uri
  /\ ~TrackAt(env, index).previewUrl

\* const canUseSdk = playerReady && deviceId && track.uri (413, 600)
canUseSdk(env, index) ==
  /\ HasTrack(env, index)
  /\ env.playerReady /\ env.deviceId # Null /\ TrackAt(env, index).uri

canUsePreview(env, index) ==
  /\ HasTrack(env, index)
  /\ TrackAt(env, index).previewUrl

\* ------------------------------------------------------- the mutable state
\* The part of the state the handlers write, as one record, so that a handler
\* that calls another handler is the composition of two functions.
St ==
  [currentIndex |-> currentIndex, isPlaying |-> isPlaying,
   clipElapsedMs |-> clipElapsedMs, clipDurationMs |-> clipDurationMs,
   songsPlayed |-> songsPlayed, clipTimerRef |-> clipTimerRef,
   audioRef |-> audioRef, useSdkRef |-> useSdkRef,
   hasAdvancedRef |-> hasAdvancedRef, timers |-> timers, pending |-> pending,
   remotePlaying |-> remotePlaying, advances |-> advances, last |-> NoIntent,
   log |-> log]

InBounds(s) ==
  /\ BagCardinality(s.pending) <= MaxPending
  /\ \A t \in s.timers : t.id \in TimerIds
  /\ s.songsPlayed <= MaxPlays

Commit(s) ==
  /\ InBounds(s)
  /\ currentIndex' = s.currentIndex
  /\ isPlaying' = s.isPlaying
  /\ clipElapsedMs' = s.clipElapsedMs
  /\ clipDurationMs' = s.clipDurationMs
  /\ songsPlayed' = s.songsPlayed
  /\ clipTimerRef' = s.clipTimerRef
  /\ audioRef' = s.audioRef
  /\ useSdkRef' = s.useSdkRef
  /\ hasAdvancedRef' = s.hasAdvancedRef
  /\ timers' = s.timers
  /\ pending' = s.pending
  /\ remotePlaying' = s.remotePlaying
  /\ advances' = s.advances
  /\ last' = s.last
  /\ log' = s.log

\* A continuation waiting on the event loop.
Ev(type, index, startElapsed, env, url, ref) ==
  [type |-> type, index |-> index, startElapsed |-> startElapsed,
   env |-> env, url |-> url, ref |-> ref, position |-> 0]

\* fetch(.../me/player/play, {uris: [track.uri], position_ms}) in flight
StartCall(type, index, startElapsed, env, position_ms) ==
  [Ev(type, index, startElapsed, env, Null, FALSE)
     EXCEPT !.position = position_ms]

\* The calls on the backends are recorded once recording has begun.
Call(name, index, arg) == [call |-> name, index |-> index, arg |-> arg]
Log(s, c) == IF s.log = <<>> THEN s ELSE [s EXCEPT !.log = Append(@, c)]

Add(s, e) == [s EXCEPT !.pending = @ (+) SetToBag({e})]
Del(s, e) == [s EXCEPT !.pending = @ (-) SetToBag({e})]

\* Ids 1..MaxTimers name timers; a clip keeps its id while its timer or its
\* audio element is alive.
FreeId(s) ==
  LET used == {t.id : t \in s.timers} \cup {s.audioRef.clip}
  IN  CHOOSE i \in 1..(MaxTimers + 2) :
        /\ i \notin used
        /\ \A j \in 1..(i - 1) : j \in used

\* window.setInterval(handler, 100) followed by clipTimerRef.current = id.
\* The previous value of the ref is overwritten, not cleared.
setInterval(s, id, kind, origin, index, startElapsed, env) ==
  [s EXCEPT
     !.timers = @ \cup {[id |-> id, kind |-> kind, origin |-> origin,
                         index |-> index, startElapsed |-> startElapsed,
                         env |-> env, el |-> 0, due |-> FALSE]},
     !.clipTimerRef = id,
     !.advances = [@ EXCEPT ![id] = 0]]

clearClipTimer(s) ==
  IF s.clipTimerRef # 0
    THEN [s EXCEPT !.timers = {t \in @ : t.id # s.clipTimerRef},
                   !.clipTimerRef = 0]
    ELSE s

\* HTMLMediaElement.pause() on the element audioRef holds: a play() promise
\* still pending is rejected (its catch handler runs later), and the element
\* stops.
pauseAudio(s) ==
  LET s1 == IF s.audioRef.state = "starting"
              THEN Add(s, Ev("playRejected", NoIndex, 0, NoEnv, Null, FALSE))
              ELSE s
  IN  [s1 EXCEPT !.audioRef.state = "paused"]

\* if (audioRef.current) { pause(); currentTime = 0; audioRef.current = null }
dropAudio(s) ==
  IF s.audioRef.state # "none"
    THEN [pauseAudio(s) EXCEPT !.audioRef = NoAudio]
    ELSE s

\* The interstitial element inBetweenAudioRef holds, if any.
InBetweenRefs(s) == {e \in BagToSet(s.pending) : e.ref}

\* inBetweenAudioRef.current = null
nullInBetweenRef(s) ==
  IF InBetweenRefs(s) = {} THEN s
  ELSE LET e == CHOOSE x \in InBetweenRefs(s) : TRUE
       IN  Add(Del(s, e), [e EXCEPT !.ref = FALSE])

\* if (inBetweenAudioRef.current) { pause(); inBetweenAudioRef.current = null }
\* Pausing an element whose play() is pending rejects that promise; a paused
\* element never fires "ended".
stopInBetween(s) ==
  IF InBetweenRefs(s) = {} THEN s
  ELSE LET e == CHOOSE x \in InBetweenRefs(s) : TRUE
       IN  IF e.type = "ibStarting"
             THEN Add(Del(s, e), [e EXCEPT !.type = "ibAborted", !.ref = FALSE])
             ELSE Del(s, e)

\* ------------------------------------------------------------ the handlers
\* Faulty variant: the next clip is scheduled without playing the interstitial
doAdvance_SkipsInterstitial(s, nextIndex, env, inBetweenUrl) ==
  Add([s EXCEPT !.currentIndex = nextIndex],
      Ev("settle", nextIndex, 0, env, Null, FALSE))

\* The body of doAdvance (467-489, 612-635) and of the tail of advanceToNext
\* (526-546), given the interstitial selection the caller has read.
doAdvance(s, nextIndex, env, inBetweenUrl) ==
  IF inBetweenUrl # Null
    THEN Add(Log(stopInBetween(s), Call("interstitialPlay", nextIndex, 0)),
             Ev("ibStarting", nextIndex, 0, env, inBetweenUrl, TRUE))
    ELSE Add([s EXCEPT !.currentIndex = nextIndex],
             Ev("settle", nextIndex, 0, env, Null, FALSE))

\* playTrackAtIndex passes its two early returns
Accepts(env, index) ==
  /\ HasTrack(env, index) /\ accessToken # Null
  /\ (canUseSdk(env, index) \/ canUsePreview(env, index))

\* Faulty variant: the play-count is not incremented
startClip_NoCount(s, index, env) ==
    LET s1 == clearClipTimer(dropAudio(s))
        s2 == [s1 EXCEPT !.clipElapsedMs = 0,
                         !.currentIndex = index,
                         !.isPlaying = TRUE,
                         !.hasAdvancedRef = FALSE]
    IN  IF canUseSdk(env, index)
          THEN Add([s2 EXCEPT !.useSdkRef = TRUE,
                              !.clipDurationMs = SDK_CLIP_DURATION_MS],
                   StartCall("playStart", index, 0, env, SDK_CLIP_START_MS))
          ELSE
            LET id == FreeId(s2)
                s3 == [s2 EXCEPT !.useSdkRef = FALSE,
                                 !.clipDurationMs = PREVIEW_CLIP_DURATION_MS,
                                 !.audioRef = [state |-> "starting", clip |-> id,
                                               origin |-> "play", index |-> index,
                                               env |-> env, ok |-> TRUE,
                                               currentTime |-> 0]]
            IN  setInterval(s3, id, "preview", "play", index, 0, env)

\* playTrackAtIndex after its early returns (420-564)
startClip(s, index, env) ==
    LET s1 == clearClipTimer(dropAudio(s))
        s2 == [s1 EXCEPT !.clipElapsedMs = 0,
                         !.currentIndex = index,
                         !.isPlaying = TRUE,
                         !.songsPlayed = @ + 1,
                         !.hasAdvancedRef = FALSE]
    IN  IF canUseSdk(env, index)
          THEN Add(Log([s2 EXCEPT !.useSdkRef = TRUE,
                                  !.clipDurationMs = SDK_CLIP_DURATION_MS],
                       Call("remoteStart", index, SDK_CLIP_START_MS)),
                   StartCall("playStart", index, 0, env, SDK_CLIP_START_MS))
          ELSE
            LET id == FreeId(s2)
                s3 == [s2 EXCEPT !.useSdkRef = FALSE,
                                 !.clipDurationMs = PREVIEW_CLIP_DURATION_MS,
                                 !.audioRef = [state |-> "starting", clip |-> id,
                                               origin |-> "play", index |-> index,
                                               env |-> env, ok |-> TRUE,
                                               currentTime |-> 0]]
            IN  setInterval(Log(s3, Call("previewPlay", index, 0)),
                            id, "preview", "play", index, 0, env)

\* Faulty variant: the capability check of lines 415-418 is missing
playTrackAtIndex_NoCapabilityCheck(s, index, env) ==
  IF ~HasTrack(env, index) THEN s ELSE startClip(s, index, env)

\* playTrackAtIndex(index) of the closure that captured env (409-567)
playTrackAtIndex(s, index, env) ==
  IF ~Accepts(env, index) THEN s ELSE startClip(s, index, env)

\* Faulty variant: the next index is clamped at the end of the list, as handleNext's
nextIndexOf_NoWrap(index, env) == Min(index + 1, Len(env.tracks) - 1)

\* const nextIndex = (index + 1) % tracks.length (464, 524, 670, 697)
nextIndexOf(index, env) == (index + 1) % Len(env.tracks)

\* Faulty variant: the clip end never pauses the remote device
pausesRemote_Never(env) == FALSE

\* if (deviceId && accessToken) fetch(.../me/player/pause...) (491, 671)
pausesRemote(env) == env.deviceId # Null /\ accessToken # Null

\* The interval callback of the SDK branch (456-502 and 661-682); t is the
\* timer that fires, t.startElapsed + t.el its totalElapsed.
sdkTick(s, t) ==
  LET totalElapsed == t.startElapsed + t.el
      nextIndex == nextIndexOf(t.index, t.env)
  IN
  IF totalElapsed >= SDK_CLIP_DURATION_MS
    THEN
      IF s.hasAdvancedRef THEN s
      ELSE
        LET s1 == clearClipTimer([s EXCEPT !.hasAdvancedRef = TRUE])
            s2 == [s1 EXCEPT !.clipElapsedMs = SDK_CLIP_DURATION_MS,
                             !.isPlaying = FALSE,
                             !.advances[t.id] = Min(@ + 1, 2)]
            s3 == Log(s2, Call("clipEnd", t.index, 0))
        IN  IF pausesRemote(t.env)
              THEN IF t.origin = "play"
                     THEN Add(Log(s3, Call("remotePause", NoIndex, 0)),
                              Ev("advPausePlay", nextIndex, 0, t.env,
                                 selectedInBetweenSoundUrl, FALSE))
                     ELSE Add(Log(s3, Call("remotePause", NoIndex, 0)),
                              Ev("advPauseResume", nextIndex, 0, t.env,
                                 Null, FALSE))
              ELSE doAdvance(s3, nextIndex, t.env, selectedInBetweenSoundUrl)
    ELSE [s EXCEPT !.clipElapsedMs = totalElapsed]

\* advanceToNext (513-547 and 686-699) of the clip c = [clip, index, env]
advanceToNext(s, c) ==
  IF s.hasAdvancedRef THEN s
  ELSE
    LET s1 == clearClipTimer([s EXCEPT !.hasAdvancedRef = TRUE])
        s2 == [s1 EXCEPT !.clipElapsedMs = PREVIEW_CLIP_DURATION_MS,
                         !.isPlaying = FALSE,
                         !.advances[c.clip] = Min(@ + 1, 2)]
    IN  doAdvance(Log(dropAudio(s2), Call("clipEnd", c.index, 0)),
                  nextIndexOf(c.index, c.env), c.env,
                  selectedInBetweenSoundUrl)

\* The interval callback of the preview branch (556-563 and 719-727)
previewTick(s, t) ==
  LET totalElapsed == t.startElapsed + t.el
  IN  IF totalElapsed >= PREVIEW_CLIP_DURATION_MS
        THEN advanceToNext(s, [clip |-> t.id, index |-> t.index, env |-> t.env])
        ELSE [s EXCEPT !.clipElapsedMs = totalElapsed]

\* Faulty variant: pause leaves the timer running
handlePause_KeepsTimer(s, env) ==
  LET s1 == stopInBetween(s)
  IN  IF s1.useSdkRef /\ env.deviceId # Null /\ accessToken # Null
        THEN Add(Log(s1, Call("remotePause", NoIndex, 0)),
                 Ev("userPause", NoIndex, 0, NoEnv, Null, FALSE))
        ELSE [(IF s1.audioRef.state # "none" THEN pauseAudio(s1) ELSE s1)
                EXCEPT !.isPlaying = FALSE]

\* handlePause up to its await (570-591); env is the closure of the render
handlePause(s, env) ==
  LET s1 == stopInBetween(clearClipTimer(s))
  IN  IF s1.useSdkRef /\ env.deviceId # Null /\ accessToken # Null
        THEN Add(Log(s1, Call("remotePause", NoIndex, 0)),
                 Ev("userPause", NoIndex, 0, NoEnv, Null, FALSE))
        ELSE [(IF s1.audioRef.state # "none" THEN pauseAudio(s1) ELSE s1)
                EXCEPT !.isPlaying = FALSE]

\* Faulty variant: resume forgets the retained elapsed value
retainedElapsed_Zero(s) == 0

\* const startElapsed = clipElapsedMs (601)
retainedElapsed(s) == s.clipElapsedMs

\* handleResume up to its await (596-728)
handleResume(s, env) ==
  IF s.currentIndex = NoIndex \/ ~HasTrack(env, s.currentIndex)
       \/ accessToken = Null
    THEN s
  ELSE
    LET index == s.currentIndex
        startElapsed == retainedElapsed(s)
        s1 == stopInBetween(clearClipTimer(s))
        s2 == [s1 EXCEPT !.isPlaying = TRUE, !.hasAdvancedRef = FALSE]
    IN  IF canUseSdk(env, index)
          THEN Add(Log([s2 EXCEPT !.useSdkRef = TRUE,
                                  !.clipDurationMs = SDK_CLIP_DURATION_MS],
                       Call("remoteStart", index, SDK_CLIP_START_MS + startElapsed)),
                   StartCall("resumeStart", index, startElapsed, env,
                             SDK_CLIP_START_MS + startElapsed))
          ELSE
            LET s3 == [s2 EXCEPT !.useSdkRef = FALSE,
                                 !.clipDurationMs = PREVIEW_CLIP_DURATION_MS]
                id == FreeId([s3 EXCEPT !.audioRef = NoAudio])
                s4 == IF s3.audioRef.state # "none"
                        THEN [s3 EXCEPT
                                !.audioRef.state =
                                   IF @ = "playing" THEN "playing" ELSE "starting",
                                !.audioRef.clip = id,
                                !.audioRef.origin = "resume",
                                !.audioRef.index = index,
                                !.audioRef.env = env,
                                !.audioRef.currentTime = startElapsed]
                        ELSE [s3 EXCEPT
                                !.audioRef =
                                   [state |-> "starting", clip |-> id,
                                    origin |-> "resume", index |-> index,
                                    env |-> env,
                                    ok |-> TrackAt(env, index).previewUrl,
                                    currentTime |-> startElapsed]]
            IN  setInterval(Log(s4, Call("previewPlay", index, startElapsed)),
                            id, "preview", "resume", index, startElapsed, env)

\* -------------------------------------------------------------- the actions
Init ==
  /\ tracks \in TrackLists
  /\ playerReady \in BOOLEAN
  /\ deviceId = IF playerReady THEN "dev" ELSE Null
  /\ selectedInBetweenSoundUrl = Null
  /\ currentIndex = NoIndex
  /\ isPlaying = FALSE
  /\ clipElapsedMs = 0
  /\ clipDurationMs = SDK_CLIP_DURATION_MS
  /\ songsPlayed = 0
  /\ clipTimerRef = 0
  /\ audioRef = NoAudio
  /\ useSdkRef = FALSE
  /\ hasAdvancedRef = FALSE
  /\ timers = {}
  /\ pending = EmptyBag
  /\ remotePlaying = FALSE
  /\ advances = [i \in 1..(MaxTimers + 2) |-> 0]
  /\ last = NoIntent
  /\ log = <<>>
  /\ inputs = 0
  /\ selectedPlaylistId = PlaylistOf(tracks)
  /\ tracksLoading = FALSE
  /\ userProfiles = selectedPlaylistId
  /\ fetches = EmptyBag
  /\ shuffleArray = <<>> /\ shuffleOut = <<>> /\ shuffleI = NotCalled

\* currentTrack (398): the controls are rendered only when it is non-null
currentTrack == currentIndex # NoIndex /\ HasTrack(Env, currentIndex)

\* A direct call playTrackAtIndex(index) of the closure that captured env;
\* last records it when index is out of bounds or the track Unplayable.
playAt(s, index, env) ==
  [playTrackAtIndex(s, index, env) EXCEPT
     !.last = IF Accepts(env, index) THEN NoIntent
              ELSE [op |-> "playAt", index |-> index]]

\* One more input from outside
Input == inputs < MaxInputs /\ inputs' = inputs + 1

\* The player and the track rows are rendered (840)
controlsShown ==
  ~tracksLoading /\ selectedPlaylistId # Null /\ Len(tracks) > 0

\* ---- user intents
\* A call of playTrackAtIndex(index) from the row list.
PlayAt(index) ==
  /\ Input
  /\ controlsShown
  /\ Commit(playAt(St, index, Env))
  /\ UNCHANGED envVars

\* The Pause button (shown while isPlaying): handlePause
Pause ==
  /\ Input
  /\ controlsShown
  /\ currentTrack /\ isPlaying
  /\ Commit(handlePause(St, Env))
  /\ UNCHANGED envVars

\* The Play button (shown while not isPlaying): handleResume
Resume ==
  /\ Input
  /\ controlsShown
  /\ currentTrack /\ ~isPlaying
  /\ Commit(handleResume(St, Env))
  /\ UNCHANGED envVars

\* Faulty variant: next() wraps to index 0 as the auto-advance does
handleNext_Wraps(s, env) ==
  IF s.currentIndex = NoIndex THEN s
  ELSE playAt(s, (s.currentIndex + 1) % Len(env.tracks), env)

\* handleNext (739-742); last records a call at the boundary
handleNext(s, env) ==
  IF s.currentIndex = NoIndex \/ s.currentIndex + 1 >= Len(env.tracks)
    THEN [s EXCEPT !.last = [op |-> "next", index |-> s.currentIndex]]
    ELSE playAt(s, s.currentIndex + 1, env)

\* handlePrev (744-747)
handlePrev(s, env) ==
  IF s.currentIndex = NoIndex \/ s.currentIndex = 0
    THEN [s EXCEPT !.last = [op |-> "prev", index |-> s.currentIndex]]
    ELSE playAt(s, s.currentIndex - 1, env)

\* The Next button
Next_ ==
  /\ Input
  /\ controlsShown
  /\ Commit(handleNext(St, Env))
  /\ UNCHANGED envVars

\* The Prev button
Prev ==
  /\ Input
  /\ controlsShown
  /\ Commit(handlePrev(St, Env))
  /\ UNCHANGED envVars

\* The "Between songs" selector
SelectInBetween ==
  /\ Input
  /\ \E url \in IN_BETWEEN_SOUNDS \cup {Null} :
       /\ url # selectedInBetweenSoundUrl
       /\ selectedInBetweenSoundUrl' = url
  /\ Commit(St)
  /\ UNCHANGED <<tracks, playerReady, deviceId, listVars, shuffleVars>>

\* ---- the Web Playback SDK's readiness events (250-257)
PlayerReady ==
  /\ Input
  /\ ~playerReady
  /\ deviceId' = "dev" /\ playerReady' = TRUE
  /\ Commit(St)
  /\ UNCHANGED <<tracks, selectedInBetweenSoundUrl, listVars, shuffleVars>>

PlayerNotReady ==
  /\ Input
  /\ playerReady
  /\ playerReady' = FALSE
  /\ Commit(St)
  /\ UNCHANGED <<tracks, deviceId, selectedInBetweenSoundUrl, listVars,
                 shuffleVars>>

\* ---- time
\* TickMs of real time pass.  Every interval timer has fired at least once
\* since the last passage (its period is far shorter), and a pending 300 ms
\* timeout fires before that much time has passed.
Elapse ==
  /\ timers # {}
  /\ \A t \in timers : ~t.due
  /\ \A e \in BagToSet(pending) : e.type # "settle"
  /\ Commit([St EXCEPT !.timers =
              {[t EXCEPT !.el = Min(@ + TickMs, SDK_CLIP_DURATION_MS),
                         !.due = TRUE] : t \in timers}])
  /\ UNCHANGED cbVars

\* The callback of the interval timer t runs; it reads performance.now().
TickOf(t) ==
  /\ LET t1 == [t EXCEPT !.due = FALSE]
         s  == [St EXCEPT !.timers = (@ \ {t}) \cup {t1}]
     IN  Commit(IF t.kind = "sdk" THEN sdkTick(s, t1) ELSE previewTick(s, t1))
  /\ UNCHANGED cbVars

Tick == \E t \in timers : TickOf(t)

\* ---- completions of remote calls
Pending(type) == {e \in BagToSet(pending) : e.type = type}

\* The remote-start call of playTrackAtIndex (436-449) resolves: the code
\* after the await starts the interval (455-456).
PlayStartResolved ==
  /\ \E e \in Pending("playStart") :
       LET s == [Del(St, e) EXCEPT !.remotePlaying = TRUE]
       IN  Commit(setInterval(s, FreeId(s), "sdk", "play", e.index, 0, e.env))
  /\ UNCHANGED cbVars

\* ... is answered with an error status (401, 403, 404): fetch resolves all
\* the same and the response is not looked at, so the code after the await
\* runs although the device has not started the track.
PlayStartNotOk ==
  /\ \E e \in Pending("playStart") :
       LET s == Del(St, e)
       IN  Commit(setInterval(s, FreeId(s), "sdk", "play", e.index, 0, e.env))
  /\ UNCHANGED cbVars

\* ... rejects: the catch block (450-454)
PlayStartRejected ==
  /\ \E e \in Pending("playStart") :
       Commit([Del(St, e) EXCEPT !.isPlaying = FALSE])
  /\ UNCHANGED cbVars

\* The remote-start call of handleResume (641-654) resolves (660-661).
ResumeStartResolved ==
  /\ \E e \in Pending("resumeStart") :
       LET s == [Del(St, e) EXCEPT !.remotePlaying = TRUE]
       IN  Commit(setInterval(s, FreeId(s), "sdk", "resume", e.index,
                              e.startElapsed, e.env))
  /\ UNCHANGED cbVars

\* ... is answered with an error status
ResumeStartNotOk ==
  /\ \E e \in Pending("resumeStart") :
       LET s == Del(St, e)
       IN  Commit(setInterval(s, FreeId(s), "sdk", "resume", e.index,
                              e.startElapsed, e.env))
  /\ UNCHANGED cbVars

\* ... rejects (655-659)
ResumeStartRejected ==
  /\ \E e \in Pending("resumeStart") :
       Commit([Del(St, e) EXCEPT !.isPlaying = FALSE])
  /\ UNCHANGED cbVars

\* The remote-pause call of an advance chain settles (495, 675): doAdvance
\* runs whether it resolved or rejected.  The chain of playTrackAtIndex uses
\* the selection it read before the call (465), the chain of handleResume
\* reads it now (613).
chainAfterPause(s, e) ==
  doAdvance(Log(Del(s, e), Call("remotePauseSettled", NoIndex, 0)),
            e.index, e.env,
            IF e.type = "advPausePlay" THEN e.url ELSE selectedInBetweenSoundUrl)

AdvancePauseResolved ==
  /\ \E e \in Pending("advPausePlay") \cup Pending("advPauseResume") :
       Commit(chainAfterPause([St EXCEPT !.remotePlaying = FALSE], e))
  /\ UNCHANGED cbVars

\* Faulty variant: a rejected remote pause ends the chain
AdvancePauseRejected_Stuck ==
  /\ \E e \in Pending("advPausePlay") \cup Pending("advPauseResume") :
       Commit(Del(St, e))
  /\ UNCHANGED cbVars

AdvancePauseRejected ==
  /\ \E e \in Pending("advPausePlay") \cup Pending("advPauseResume") :
       Commit(chainAfterPause(St, e))
  /\ UNCHANGED cbVars

\* Faulty variant: the timeout fires and starts nothing
SettleTimeout_Dropped ==
  /\ \E e \in Pending("settle") : Commit(Del(St, e))
  /\ UNCHANGED cbVars

\* setTimeout(() => playTrackAtIndex(nextIndex), 300) fires (487, 545, 633)
SettleTimeout ==
  /\ \E e \in Pending("settle") :
       Commit(playAt(Del(St, e), e.index, e.env))
  /\ UNCHANGED cbVars

\* The remote-pause call of handlePause settles (579-592)
UserPauseResolved ==
  /\ \E e \in Pending("userPause") :
       Commit([Del(St, e) EXCEPT !.isPlaying = FALSE, !.remotePlaying = FALSE])
  /\ UNCHANGED cbVars

UserPauseRejected ==
  /\ \E e \in Pending("userPause") :
       Commit([Del(St, e) EXCEPT !.isPlaying = FALSE])
  /\ UNCHANGED cbVars

\* ---- events of the preview audio element
\* play() resolves: playback has begun
PreviewPlayResolved ==
  /\ audioRef.state = "starting" /\ audioRef.ok
  /\ Commit([St EXCEPT !.audioRef.state = "playing"])
  /\ UNCHANGED cbVars

\* play() is rejected by the environment: the catch handler (551-554, 703-706)
PreviewPlayRejected ==
  /\ audioRef.state = "starting"
  /\ Commit([St EXCEPT !.audioRef.state = "paused", !.isPlaying = FALSE])
  /\ UNCHANGED cbVars

\* the catch handler of a play() that a later pause() interrupted
PreviewPlayAborted ==
  /\ \E e \in Pending("playRejected") :
       Commit([Del(St, e) EXCEPT !.isPlaying = FALSE])
  /\ UNCHANGED cbVars

\* the element reaches the end of the preview: audio.onended (549, 702, 712)
PreviewEnded ==
  /\ audioRef.state = "playing"
  /\ Commit(advanceToNext([St EXCEPT !.audioRef.state = "paused"],
                          [clip |-> audioRef.clip, index |-> audioRef.index,
                           env |-> audioRef.env]))
  /\ UNCHANGED cbVars

\* ---- events of an interstitial element
\* onended (475-479) and the catch of play() (480-484) have the same body
inBetweenDone(s, e, how) ==
  playTrackAtIndex([Log(nullInBetweenRef(Del(s, e)), Call(how, e.index, 0))
                      EXCEPT !.currentIndex = e.index],
                   e.index, e.env)

\* Faulty variant: the element that began to play can still fail its start
InBetweenPlayResolved_StillStarting ==
  /\ \E e \in Pending("ibStarting") :
       Commit(Add(St, [e EXCEPT !.type = "ibPlaying", !.ref = FALSE]))
  /\ UNCHANGED cbVars

InBetweenPlayResolved ==
  /\ \E e \in Pending("ibStarting") :
       Commit(Add(Del(St, e), [e EXCEPT !.type = "ibPlaying"]))
  /\ UNCHANGED cbVars

InBetweenPlayRejected ==
  /\ \E e \in Pending("ibStarting") \cup Pending("ibAborted") :
       Commit(inBetweenDone(St, e, "interstitialFailed"))
  /\ UNCHANGED cbVars

InBetweenEnded ==
  /\ \E e \in Pending("ibPlaying") :
       Commit(inBetweenDone(St, e, "interstitialEnded"))
  /\ UNCHANGED cbVars

Next ==
  \/ \E index \in 0..Len(tracks) : PlayAt(index)
  \/ Pause
  \/ Resume
  \/ Next_
  \/ Prev
  \/ SelectInBetween
  \/ PlayerReady
  \/ PlayerNotReady
  \/ Elapse
  \/ Tick
  \/ PlayStartResolved
  \/ PlayStartNotOk
  \/ PlayStartRejected
  \/ ResumeStartResolved
  \/ ResumeStartNotOk
  \/ ResumeStartRejected
  \/ AdvancePauseResolved
  \/ AdvancePauseRejected
  \/ SettleTimeout
  \/ UserPauseResolved
  \/ UserPauseRejected
  \/ PreviewPlayResolved
  \/ PreviewPlayRejected
  \/ PreviewPlayAborted
  \/ PreviewEnded
  \/ InBetweenPlayResolved
  \/ InBetweenPlayRejected
  \/ InBetweenEnded

Spec == Init /\ [][Next]_vars

\* ---- utils.shuffle
\* Faulty variant: the element at b is copied to a, nothing is exchanged
swap_Overwrite(o, a, b) == [o EXCEPT ![a + 1] = o[b + 1]]

\* [out[a], out[b]] = [out[b], out[a]], indices 0-based
swap(o, a, b) == [o EXCEPT ![a + 1] = o[b + 1], ![b + 1] = o[a + 1]]

\* The draws Math.floor(Math.random() * (k + 1)) of the loop over an array
\* of n elements, one for each k = n-1 .. 1
Draws(n) == {r \in [1..(n - 1) -> 0..(n - 1)] : \A k \in 1..(n - 1) : r[k] <= k}

\* The loop of shuffle from i = k down to 1, with the draws rnd
RECURSIVE shuffleLoop(_, _, _)
shuffleLoop(o, k, rnd) ==
  IF k > 0 THEN shuffleLoop(swap(o, k, rnd[k]), k - 1, rnd) ELSE o

\* shuffle(array) when Math.random yields the draws rnd (45-52)
shuffle(arr, rnd) == shuffleLoop(arr, Len(arr) - 1, rnd)

\* The elements and lengths of the arrays shuffle is called with
MaxElem == 3
MaxLen == 3
Arrays == UNION {[1..n -> 1..MaxElem] : n \in 0..MaxLen}

\* const out = [...array]; let i = out.length - 1 (46-47)
ShuffleCall ==
  /\ shuffleI = NotCalled
  /\ shuffleOut' = shuffleArray
  /\ shuffleI' = Len(shuffleArray) - 1
  /\ Commit(St)
  /\ UNCHANGED <<tracks, playerReady, deviceId, selectedInBetweenSoundUrl,
                 inputs, listVars, shuffleArray>>

\* One turn of the loop (47-50) with the draw j; the loop ends at i = 0 and
\* out is returned
ShuffleStep ==
  /\ shuffleI > 0
  /\ \E j \in 0..shuffleI : shuffleOut' = swap(shuffleOut, shuffleI, j)
  /\ shuffleI' = shuffleI - 1
  /\ Commit(St)
  /\ UNCHANGED <<tracks, playerReady, deviceId, selectedInBetweenSoundUrl,
                 inputs, listVars, shuffleArray>>

shuffleReturned == shuffleI \in {-1, 0}

\* A call of shuffle on an array of the caller's
InitShuffle ==
  /\ shuffleArray \in Arrays
  /\ shuffleOut = <<>> /\ shuffleI = NotCalled
  /\ tracks = <<>>
  /\ playerReady = FALSE
  /\ deviceId = Null
  /\ selectedInBetweenSoundUrl = Null
  /\ currentIndex = NoIndex
  /\ isPlaying = FALSE
  /\ clipElapsedMs = 0
  /\ clipDurationMs = SDK_CLIP_DURATION_MS
  /\ songsPlayed = 0
  /\ clipTimerRef = 0
  /\ audioRef = NoAudio
  /\ useSdkRef = FALSE
  /\ hasAdvancedRef = FALSE
  /\ timers = {}
  /\ pending = EmptyBag
  /\ remotePlaying = FALSE
  /\ advances = [i \in 1..(MaxTimers + 2) |-> 0]
  /\ last = NoIntent
  /\ log = <<>>
  /\ inputs = 0
  /\ selectedPlaylistId = Null
  /\ tracksLoading = FALSE
  /\ userProfiles = Null
  /\ fetches = EmptyBag

NextShuffle == ShuffleCall \/ ShuffleStep

SpecShuffle == InitShuffle /\ [][NextShuffle]_vars

\* ---- the playlist selector and the fetch of a playlist's items (296-396)
ListChoices == {"B", "D"}
Fetch(stage, id) == [stage |-> stage, id |-> id]
Fetching(stage) == {f \in BagToSet(fetches) : f.stage = stage}
NoFetch(f) == fetches (-) SetToBag({f})

\* onChange of the playlist selector (805), and the effect it triggers up
\* to its first fetch (296-315)
SelectPlaylist ==
  /\ Input
  /\ \E p \in ListChoices \cup {Null} :
       /\ p # selectedPlaylistId
       /\ selectedPlaylistId' = p
       /\ IF p = Null
            THEN /\ Commit(St)
                 /\ UNCHANGED <<tracks, tracksLoading, userProfiles, fetches>>
            ELSE /\ tracksLoading' = TRUE
                 /\ tracks' = <<>>
                 /\ userProfiles' = Null
                 /\ fetches' = fetches (+) SetToBag({Fetch("items", p)})
                 /\ Commit([St EXCEPT !.currentIndex = NoIndex])
  /\ UNCHANGED <<playerReady, deviceId, selectedInBetweenSoundUrl, shuffleVars>>

\* The last page of items has arrived (316-353, 395): the tracks are
\* installed shuffled, the profiles of their adders are asked for
ItemsFetched ==
  /\ \E f \in Fetching("items") :
       /\ \E rnd \in Draws(Len(Playlist[f.id])) :
            tracks' = shuffle(Playlist[f.id], rnd)
       /\ fetches' = NoFetch(f) (+) SetToBag({Fetch("profiles", f.id)})
  /\ tracksLoading' = FALSE
  /\ Commit(St)
  /\ UNCHANGED <<playerReady, deviceId, selectedInBetweenSoundUrl, inputs,
                 selectedPlaylistId, userProfiles, shuffleVars>>

\* The items response is not ok (318-321): nothing was collected
ItemsNotOk ==
  /\ \E f \in Fetching("items") : fetches' = NoFetch(f)
  /\ tracks' = <<>>
  /\ tracksLoading' = FALSE
  /\ Commit(St)
  /\ UNCHANGED <<playerReady, deviceId, selectedInBetweenSoundUrl, inputs,
                 selectedPlaylistId, userProfiles, shuffleVars>>

\* The items fetch is rejected (394-395)
ItemsRejected ==
  /\ \E f \in Fetching("items") : fetches' = NoFetch(f)
  /\ tracksLoading' = FALSE
  /\ Commit(St)
  /\ UNCHANGED <<tracks, playerReady, deviceId, selectedInBetweenSoundUrl,
                 inputs, selectedPlaylistId, userProfiles, shuffleVars>>

\* The profile responses have all arrived (371-391)
ProfilesFetched ==
  /\ \E f \in Fetching("profiles") :
       /\ userProfiles' = f.id
       /\ fetches' = NoFetch(f)
  /\ Commit(St)
  /\ UNCHANGED <<tracks, playerReady, deviceId, selectedInBetweenSoundUrl,
                 inputs, selectedPlaylistId, tracksLoading, shuffleVars>>

\* A profile fetch is rejected (392)
ProfilesRejected ==
  /\ \E f \in Fetching("profiles") : fetches' = NoFetch(f)
  /\ Commit(St)
  /\ UNCHANGED <<tracks, playerReady, deviceId, selectedInBetweenSoundUrl,
                 inputs, selectedPlaylistId, tracksLoading, userProfiles,
                 shuffleVars>>

\* A session in which the listener plays rows and changes the playlist
NextLists ==
  \/ SelectPlaylist
  \/ ItemsFetched
  \/ ItemsNotOk
  \/ ItemsRejected
  \/ ProfilesFetched
  \/ ProfilesRejected
  \/ \E index \in 0..(Len(tracks) - 1) : PlayAt(index)
  \/ Elapse
  \/ Tick
  \/ PlayStartResolved
  \/ PlayStartNotOk
  \/ PlayStartRejected
  \/ AdvancePauseResolved
  \/ AdvancePauseRejected
  \/ SettleTimeout
  \/ PreviewPlayResolved
  \/ PreviewPlayRejected
  \/ PreviewPlayAborted
  \/ PreviewEnded

\* The page with one of the offered playlists loaded
InitLists ==
  /\ selectedPlaylistId \in ListChoices
  /\ tracks = Playlist[selectedPlaylistId]
  /\ playerReady \in BOOLEAN
  /\ deviceId = IF playerReady THEN "dev" ELSE Null
  /\ selectedInBetweenSoundUrl = Null
  /\ currentIndex = NoIndex
  /\ isPlaying = FALSE
  /\ clipElapsedMs = 0
  /\ clipDurationMs = SDK_CLIP_DURATION_MS
  /\ songsPlayed = 0
  /\ clipTimerRef = 0
  /\ audioRef = NoAudio
  /\ useSdkRef = FALSE
  /\ hasAdvancedRef = FALSE
  /\ timers = {}
  /\ pending = EmptyBag
  /\ remotePlaying = FALSE
  /\ advances = [i \in 1..(MaxTimers + 2) |-> 0]
  /\ last = NoIntent
  /\ log = <<>>
  /\ inputs = 0
  /\ tracksLoading = FALSE
  /\ userProfiles = selectedPlaylistId
  /\ fetches = EmptyBag
  /\ shuffleArray = <<>> /\ shuffleOut = <<>> /\ shuffleI = NotCalled

SpecLists == InitLists /\ [][NextLists]_vars

\* ---- one listening session left to itself
\* The page as first rendered with a playlist loaded, the calls on the
\* backends being recorded from the start.
AutoTrackLists ==
  { <<FullTrack, FullTrack, FullTrack>>, <<PreviewTrack, BothTrack>> }

InitAuto ==
  /\ tracks \in AutoTrackLists
  /\ playerReady \in BOOLEAN
  /\ deviceId = IF playerReady THEN "dev" ELSE Null
  /\ selectedInBetweenSoundUrl \in {Null} \cup IN_BETWEEN_SOUNDS
  /\ currentIndex = NoIndex
  /\ isPlaying = FALSE
  /\ clipElapsedMs = 0
  /\ clipDurationMs = SDK_CLIP_DURATION_MS
  /\ songsPlayed = 0
  /\ clipTimerRef = 0
  /\ audioRef = NoAudio
  /\ useSdkRef = FALSE
  /\ hasAdvancedRef = FALSE
  /\ timers = {}
  /\ pending = EmptyBag
  /\ remotePlaying = FALSE
  /\ advances = [i \in 1..(MaxTimers + 2) |-> 0]
  /\ last = NoIntent
  /\ log = <<Call("begin", NoIndex, 0)>>
  /\ inputs = 0
  /\ selectedPlaylistId = PlaylistOf(tracks)
  /\ tracksLoading = FALSE
  /\ userProfiles = selectedPlaylistId
  /\ fetches = EmptyBag
  /\ shuffleArray = <<>> /\ shuffleOut = <<>> /\ shuffleI = NotCalled

\* The listener clicks a row once (907), and later, with no call in flight,
\* Pause (880) and then Play (880) once each.
PlayFirst == inputs = 0 /\ \E index \in 0..(Len(tracks) - 1) : PlayAt(index)
PauseOnce == inputs = 1 /\ pending = EmptyBag /\ Pause
ResumeOnce == inputs = 2 /\ pending = EmptyBag /\ Resume

NextAuto ==
  \/ PlayFirst
  \/ PauseOnce
  \/ ResumeOnce
  \/ Elapse
  \/ Tick
  \/ PlayStartResolved
  \/ PlayStartNotOk
  \/ PlayStartRejected
  \/ ResumeStartResolved
  \/ ResumeStartNotOk
  \/ ResumeStartRejected
  \/ AdvancePauseResolved
  \/ AdvancePauseRejected
  \/ SettleTimeout
  \/ UserPauseResolved
  \/ UserPauseRejected
  \/ PreviewPlayResolved
  \/ PreviewPlayRejected
  \/ PreviewPlayAborted
  \/ PreviewEnded
  \/ InBetweenPlayResolved
  \/ InBetweenPlayRejected
  \/ InBetweenEnded

\* Interval timers fire, the remote pause of a clip end settles one way or
\* the other, and the 300 ms timeout fires.
SpecAuto ==
  /\ InitAuto /\ [][NextAuto]_vars
  /\ WF_vars(Tick)
  /\ WF_vars(AdvancePauseResolved \/ AdvancePauseRejected)
  /\ WF_vars(SettleTimeout)

\* ---- a session in which Play is clicked after a clip has ended
\* An advance chain is between its clip's end and the next clip's start
ChainPending ==
  \E e \in BagToSet(pending) :
    e.type \in {"advPausePlay", "advPauseResume", "settle", "ibStarting",
                "ibPlaying"}

\* The listener clicks Play (880) while an advance chain is pending
ResumeAfterEnd == inputs = 1 /\ ChainPending /\ Resume

NextRace ==
  \/ PlayFirst
  \/ ResumeAfterEnd
  \/ Elapse
  \/ Tick
  \/ PlayStartResolved
  \/ PlayStartNotOk
  \/ PlayStartRejected
  \/ ResumeStartResolved
  \/ ResumeStartNotOk
  \/ ResumeStartRejected
  \/ AdvancePauseResolved
  \/ AdvancePauseRejected
  \/ SettleTimeout
  \/ PreviewPlayResolved
  \/ PreviewPlayRejected
  \/ PreviewPlayAborted
  \/ PreviewEnded
  \/ InBetweenPlayResolved
  \/ InBetweenPlayRejected
  \/ InBetweenEnded

SpecRace == InitAuto /\ [][NextRace]_vars

\* ---- a session in which Pause and Play are clicked at any moment
\* The listener clicks a row once, then Pause (880) once and Play (880) once,
\* whatever is in flight.
PauseAnyTime == inputs = 1 /\ Pause
ResumeAnyTime == inputs = 2 /\ Resume

NextButtons ==
  \/ PlayFirst
  \/ PauseAnyTime
  \/ ResumeAnyTime
  \/ Elapse
  \/ Tick
  \/ PlayStartResolved
  \/ PlayStartNotOk
  \/ PlayStartRejected
  \/ ResumeStartResolved
  \/ ResumeStartNotOk
  \/ ResumeStartRejected
  \/ AdvancePauseResolved
  \/ AdvancePauseRejected
  \/ SettleTimeout
  \/ UserPauseResolved
  \/ UserPauseRejected
  \/ PreviewPlayResolved
  \/ PreviewPlayRejected
  \/ PreviewPlayAborted
  \/ PreviewEnded
  \/ InBetweenPlayResolved
  \/ InBetweenPlayRejected
  \/ InBetweenEnded

SpecButtons == InitAuto /\ [][NextButtons]_vars

\* ---- a session left to itself in which every call succeeds
\* The listener clicks a row once; every remote call resolves, the preview
\* and the interstitial start and play to their end.
\* A play() that succeeds resolves long before TickMs have passed
ElapseStarted == audioRef.state # "starting" /\ Elapse

NextLive ==
  \/ PlayFirst
  \/ ElapseStarted
  \/ Tick
  \/ PlayStartResolved
  \/ AdvancePauseResolved
  \/ SettleTimeout
  \/ PreviewPlayResolved
  \/ PreviewEnded
  \/ InBetweenPlayResolved
  \/ InBetweenEnded

\* Time passes, due timers fire, calls in flight resolve, the preview
\* starts, the 300 ms timeout fires, and an interstitial starts and reaches
\* its end.
SpecLive ==
  /\ InitAuto /\ [][NextLive]_vars
  /\ WF_vars(ElapseStarted)
  /\ WF_vars(PreviewPlayResolved)
  /\ WF_vars(Tick)
  /\ WF_vars(PlayStartResolved)
  /\ WF_vars(AdvancePauseResolved)
  /\ WF_vars(SettleTimeout)
  /\ WF_vars(InBetweenPlayResolved)
  /\ WF_vars(InBetweenEnded)

\* ================================================================ the claims
\* What the session exposes and owns, without the continuations in flight.
sessionVars ==
  <<currentIndex, isPlaying, clipElapsedMs, clipDurationMs, songsPlayed,
    hasAdvancedRef, clipTimerRef, timers, audioRef, useSdkRef, remotePlaying>>

\* The remote-start calls in flight.
StartsInFlight == Pending("playStart") \cup Pending("resumeStart")

\* The backends that are producing sound (or about to): the remote device,
\* the local preview element.
LiveBackends ==
  (IF remotePlaying THEN 1 ELSE 0)
    + (IF audioRef.state \in {"starting", "playing"} THEN 1 ELSE 0)

\* C1 (as claimed): no clip started by playAt or resume starts more than one
\* advance chain, whatever ticks and natural-end events follow its end.
C1_OneAdvancePerClip == \A c \in DOMAIN advances : advances[c] <= 1

\* C2 (as claimed): at most one Clip Clock timer is active and at most one
\* backend is live, in every reachable state.
C2_OneTimerOneBackend == Cardinality(timers) <= 1 /\ LiveBackends <= 1

\* C3: a direct call playAt(i) with i out of bounds or the track at i
\* Unplayable changes nothing of the session and starts nothing.
C3_UnplayablePlayAtIsNoOp ==
  [][last'.op = "playAt" =>
       /\ UNCHANGED sessionVars
       /\ StartsInFlight' = StartsInFlight]_vars

\* C3 witness: such a call was made while a clip was playing.
C3_Witness ==
  /\ last.op = "playAt" /\ isPlaying /\ timers # {}
  /\ currentIndex # last.index

\* C4: resume continues from the retained elapsed value.  (a) The Play button
\* restarts the backend at clip-window start + retained elapsed (remote
\* position, or the element's play position) and restarts the clock with the
\* retained value as carry-over, leaving the published value alone; (b) what
\* the restarted clock then publishes is never below the retained value,
\* when the clip window is that of the backend the value was reached with.
C4_ResumeContinues ==
  [][/\ Resume =>
          /\ clipElapsedMs' = clipElapsedMs
          /\ IF playerReady /\ deviceId # Null /\ tracks[currentIndex + 1].uri
               THEN \E e \in Pending("resumeStart")' :
                      /\ e.index = currentIndex
                      /\ e.position = SDK_CLIP_START_MS + clipElapsedMs
                      /\ e.startElapsed = clipElapsedMs
               ELSE /\ audioRef'.currentTime = clipElapsedMs
                    /\ \E t \in timers' :
                         /\ t.id = clipTimerRef' /\ t.origin = "resume"
                         /\ t.startElapsed = clipElapsedMs /\ t.el = 0
     /\ ResumeStartResolved =>
          \E e \in Pending("resumeStart"), t \in timers' :
             /\ t.id = clipTimerRef' /\ t.origin = "resume" /\ t.el = 0
             /\ t.startElapsed = e.startElapsed
     /\ \A t \in timers :
          ( /\ TickOf(t) /\ t.origin = "resume"
            /\ clipElapsedMs' # clipElapsedMs
            /\ (t.kind = "sdk" \/ t.startElapsed <= PREVIEW_CLIP_DURATION_MS) )
          => clipElapsedMs' >= t.startElapsed
    ]_vars

\* C4 witness: a clip resumed on the remote device from a retained value
\* above 0 has published progress beyond it.
C4_Witness ==
  \E t \in timers :
    /\ t.origin = "resume" /\ t.kind = "sdk" /\ t.startElapsed > 0 /\ t.el > 0
    /\ clipElapsedMs = t.startElapsed + t.el
    /\ clipElapsedMs < SDK_CLIP_DURATION_MS

\* The events of an advance chain.
ChainTypes == {"advPausePlay", "advPauseResume", "settle", "ibStarting"}

\* The index of the clip with id c: that of its timer, else of its element.
ClipIndexOf(c) ==
  IF \E t \in timers : t.id = c
    THEN (CHOOSE t \in timers : t.id = c).index
    ELSE audioRef.index

ClipLenOf(c) ==
  IF \E t \in timers : t.id = c
    THEN Len((CHOOSE t \in timers : t.id = c).env.tracks)
    ELSE Len(audioRef.env.tracks)

\* C5: when a clip starts its advance chain, the chain's nextIndex is
\* (index of the clip + 1) mod list length: 0 after the last index.
C5_AdvanceWraps ==
  [][\A c \in DOMAIN advances :
       advances'[c] > advances[c] =>
         \E e \in BagToSet(pending') :
           /\ e.type \in ChainTypes
           /\ \/ CopiesIn(e, pending') > CopiesIn(e, pending)
              \/ e.type = "ibStarting" /\ e.ref
           /\ e.index = (ClipIndexOf(c) + 1) % ClipLenOf(c)
           /\ (ClipIndexOf(c) = ClipLenOf(c) - 1 => e.index = 0)
           /\ (e.type = "settle" => currentIndex' = e.index)
    ]_vars

\* C5 witness: the clip at the last index of a list of several tracks has
\* ended and its chain is heading for index 0.
C5_Witness ==
  /\ Len(tracks) > 1 /\ hasAdvancedRef /\ currentIndex = 0
  /\ clipElapsedMs = PREVIEW_CLIP_DURATION_MS
  /\ \E e \in Pending("settle") : e.index = 0

\* C6: manual navigation never wraps.  next() at the last index, prev() at
\* index 0, and either with nothing loaded change nothing; elsewhere they are
\* playAt(index + 1) / playAt(index - 1).
C6_ManualNavigationClamped ==
  [][/\ Next_ =>
          IF currentIndex = NoIndex \/ currentIndex = Len(tracks) - 1
            THEN UNCHANGED sessionVars /\ StartsInFlight' = StartsInFlight
            ELSE IF tracks[currentIndex + 2].previewUrl
                      \/ (tracks[currentIndex + 2].uri /\ playerReady /\ deviceId # Null)
                   THEN /\ currentIndex' = currentIndex + 1
                        /\ songsPlayed' = songsPlayed + 1
                        /\ clipElapsedMs' = 0 /\ isPlaying'
                   ELSE UNCHANGED sessionVars
     /\ Prev =>
          IF currentIndex = NoIndex \/ currentIndex = 0
            THEN UNCHANGED sessionVars /\ StartsInFlight' = StartsInFlight
            ELSE IF tracks[currentIndex].previewUrl
                      \/ (tracks[currentIndex].uri /\ playerReady /\ deviceId # Null)
                   THEN /\ currentIndex' = currentIndex - 1
                        /\ songsPlayed' = songsPlayed + 1
                        /\ clipElapsedMs' = 0 /\ isPlaying'
                   ELSE UNCHANGED sessionVars
    ]_vars

\* C6 witness: next() was called at the last index while a clip was playing.
C6_Witness ==
  /\ last.op = "next" /\ currentIndex = Len(tracks) - 1 /\ Len(tracks) > 1
  /\ isPlaying

\* Capability as the data model defines it, for the closure environment env.
FullAvailable(env, i) ==
  env.playerReady /\ env.deviceId # Null /\ env.tracks[i + 1].uri
PreviewAvailable(env, i) == env.tracks[i + 1].previewUrl

\* C9: every accepted playAt selects Full iff the device is ready, with a
\* device reference, and the track has a remote reference (also when it has a
\* preview reference); otherwise Preview iff it has a preview reference.  The
\* clip total duration is then the window duration of the selected backend,
\* the preview's being the shorter.  A call from the row list reads the
\* current readiness.
C9_BackendSelection ==
  [][songsPlayed' = songsPlayed + 1 =>
       /\ PREVIEW_CLIP_DURATION_MS < SDK_CLIP_DURATION_MS
       /\ \/ /\ useSdkRef' /\ clipDurationMs' = SDK_CLIP_DURATION_MS
             /\ clipTimerRef' = 0 /\ audioRef'.state = "none"
             /\ \E e \in Pending("playStart")' :
                  /\ CopiesIn(e, pending') > CopiesIn(e, pending)
                  /\ e.index = currentIndex'
                  /\ e.position = SDK_CLIP_START_MS
                  /\ FullAvailable(e.env, e.index)
                  /\ ((\E i \in 0..Len(tracks) : PlayAt(i)) => e.env = Env)
          \/ /\ ~useSdkRef' /\ clipDurationMs' = PREVIEW_CLIP_DURATION_MS
             /\ audioRef'.state = "starting" /\ audioRef'.index = currentIndex'
             /\ audioRef'.currentTime = 0
             /\ Pending("playStart")' \subseteq Pending("playStart")
             /\ \E t \in timers' :
                  /\ t.id = clipTimerRef' /\ t.kind = "preview" /\ t.el = 0
                  /\ t.index = currentIndex'
                  /\ ~FullAvailable(t.env, t.index)
                  /\ PreviewAvailable(t.env, t.index)
                  /\ ((\E i \in 0..Len(tracks) : PlayAt(i)) => t.env = Env)
    ]_vars

\* C9 witness: a track with both references was started on the remote device.
C9_Witness ==
  \E e \in Pending("playStart") :
    /\ e.env.tracks[e.index + 1].previewUrl /\ e.env.tracks[e.index + 1].uri
    /\ useSdkRef /\ clipDurationMs = SDK_CLIP_DURATION_MS
    /\ currentIndex = e.index /\ songsPlayed = 1

\* C10 (as claimed): the published elapsed value never decreases, except
\* that an accepted playAt resets it to 0.
C10_ElapsedMonotonic ==
  [][\/ clipElapsedMs' >= clipElapsedMs
     \/ songsPlayed' = songsPlayed + 1 /\ clipElapsedMs' = 0]_vars

\* ---- the order of the calls on the backends
LastCall == log[Len(log)]
IssuesStart(name) ==
  /\ Len(log') = Len(log) + 1
  /\ log'[Len(log')].call = name
\* The last n recorded calls
LastCalls(n) == SubSeq(log, Len(log) - n + 1, Len(log))
FullClipEnded ==
  \E t \in timers : /\ t.kind = "sdk" /\ t.index = 0 /\ t.id = clipTimerRef
                    /\ t.startElapsed + t.el >= SDK_CLIP_DURATION_MS

C7_Scenario ==
  /\ tracks = <<FullTrack, FullTrack, FullTrack>>
  /\ playerReady /\ deviceId # Null
  /\ selectedInBetweenSoundUrl = Null
  /\ inputs = 1
  /\ Len(log) >= 2 /\ log[2] = Call("remoteStart", 0, SDK_CLIP_START_MS)

\* C7: three Full tracks, device ready, no interstitial, playAt(0) and no
\* further input.  The remote start of the clip at index 1 is issued with
\* current index 1 and elapsed 0, and the calls recorded since the clip at
\* index 0 ended are exactly one remote pause and its settling, in that
\* order; and once the clock of clip 0 has reached the full-clip duration
\* the session does get there.
C7_AdvanceAfterFullClip ==
  /\ [][C7_Scenario /\ IssuesStart("remoteStart") /\ log'[Len(log')].index = 1
          => /\ currentIndex' = 1 /\ clipElapsedMs' = 0 /\ isPlaying'
             /\ log'[Len(log')].arg = SDK_CLIP_START_MS
             /\ Len(log) = 5
             /\ LastCalls(3) = <<Call("clipEnd", 0, 0),
                            Call("remotePause", NoIndex, 0),
                            Call("remotePauseSettled", NoIndex, 0)>>]_vars
  /\ (C7_Scenario /\ songsPlayed = 1 /\ FullClipEnded)
       ~> (inputs > 1 \/ (currentIndex = 1 /\ clipElapsedMs = 0
                          /\ songsPlayed = 2))

\* C7 witness: the clip at index 1 has been started after the clip at index 0
\* ran its full duration.
C7_Witness ==
  /\ C7_Scenario /\ currentIndex = 1 /\ clipElapsedMs = 0 /\ songsPlayed = 2
  /\ log = <<Call("begin", NoIndex, 0),
             Call("remoteStart", 0, SDK_CLIP_START_MS),
             Call("clipEnd", 0, 0),
             Call("remotePause", NoIndex, 0),
             Call("remotePauseSettled", NoIndex, 0),
             Call("remoteStart", 1, SDK_CLIP_START_MS)>>

StartCalls == {"remoteStart", "previewPlay"}
InterstitialOver == {"interstitialEnded", "interstitialFailed"}
\* The calls recorded before the last two show a Full clip that ended and
\* whose remote pause was issued and settled
AfterFullClip(next) ==
  /\ Len(log) >= 6
  /\ log[Len(log) - 2] = Call("remotePauseSettled", NoIndex, 0)
  /\ log[Len(log) - 3] = Call("remotePause", NoIndex, 0)
  /\ log[Len(log) - 4].call = "clipEnd"
  /\ log[Len(log) - 5].call = "remoteStart"
  /\ log[Len(log) - 5].index = log[Len(log) - 4].index
  /\ next = (log[Len(log) - 4].index + 1) % Len(tracks)
\* ... show a Preview clip that ended, with no remote pause
AfterPreviewClip(next) ==
  /\ Len(log) >= 4
  /\ log[Len(log) - 2].call = "clipEnd"
  /\ log[Len(log) - 3].call = "previewPlay"
  /\ log[Len(log) - 3].index = log[Len(log) - 2].index
  /\ next = (log[Len(log) - 2].index + 1) % Len(tracks)

Resolves(f) == CopiesIn(f, fetches') < CopiesIn(f, fetches)

\* C11 (as claimed): a fetch continuation of a playlist that is no longer the
\* selected one installs neither its tracks nor its user profiles.
C11_SupersededFetchIgnored ==
  [][\A f \in BagToSet(fetches) :
       (Resolves(f) /\ selectedPlaylistId \in ListChoices
          /\ f.id # selectedPlaylistId)
       => UNCHANGED <<tracks, userProfiles>>]_vars

\* C12 (as claimed): the step that replaces the track list leaves the current
\* index null and the elapsed time within the clip 0.
C12_ReplacementResetsSession ==
  [][tracks' # tracks => currentIndex' = NoIndex /\ clipElapsedMs' = 0]_vars

\* C19 (as claimed): once the track list has been replaced, a timer tick or a
\* scheduled playAt that was set up under the old list changes neither the
\* current index nor the published progress, and starts no clip.
C19_ReplacementCancelsOldList ==
  [][(\/ \E t \in timers : TickOf(t) /\ t.env.tracks # tracks
      \/ \E e \in Pending("settle") :
           /\ e.env.tracks # tracks
           /\ CopiesIn(e, pending') < CopiesIn(e, pending))
       => UNCHANGED <<currentIndex, clipElapsedMs, songsPlayed>>]_vars

\* C13 (as claimed): when the remote-start call of playAt or resume fails,
\* by rejection or by an error answer, the continuation leaves is-playing
\* false and starts no Clip Clock timer, so that nothing can advance from
\* the abandoned clip.
C13_FailedStartAbandoned ==
  [][(PlayStartRejected \/ PlayStartNotOk
        \/ ResumeStartRejected \/ ResumeStartNotOk)
       => /\ ~isPlaying'
          /\ timers' = timers /\ clipTimerRef' = clipTimerRef
          /\ \A e \in BagToSet(pending') :
               CopiesIn(e, pending') <= CopiesIn(e, pending)]_vars

\* C14 (as claimed): when play() of a Preview clip's audio element is
\* rejected, is-playing is false and the clip has no running Clip Clock, so
\* that no auto-advance can follow without the listener acting.
C14_RejectedPreviewStaysStopped ==
  [][PreviewPlayRejected
       => /\ ~isPlaying'
          /\ \A t \in timers' : t.id # audioRef.clip]_vars

\* C15 (as claimed): from the step in which a clip's end is detected and its
\* advance chain begins, the current index is the chain's nextIndex, with
\* or without an interstitial selected.
C15_IndexSetAtCommit ==
  [][\A c \in DOMAIN advances :
       advances'[c] > advances[c]
         => currentIndex' = (ClipIndexOf(c) + 1) % ClipLenOf(c)]_vars

\* How many times x occurs in the array a
Occurrences(a, x) == Cardinality({k \in DOMAIN a : a[k] = x})

\* C16: the array shuffle returns has the length of its argument and the
\* same elements the same number of times; it equals the argument when that
\* is empty or has one element; it is a result of the draws; and the
\* argument is never written.
C16_ShuffleIsPermutation ==
  /\ [](shuffleReturned =>
         /\ Len(shuffleOut) = Len(shuffleArray)
         /\ \A x \in 1..MaxElem :
              Occurrences(shuffleOut, x) = Occurrences(shuffleArray, x)
         /\ (Len(shuffleArray) <= 1 => shuffleOut = shuffleArray)
         /\ \E rnd \in Draws(Len(shuffleArray)) :
              shuffleOut = shuffle(shuffleArray, rnd))
  /\ [][shuffleArray' = shuffleArray]_vars

\* C16 witness: an array of distinct elements was returned in another order
C16_Witness ==
  /\ shuffleReturned
  /\ shuffleArray = <<1, 2, 3>> /\ shuffleOut = <<3, 1, 2>>

\* The number of recorded calls named name
CallCount(name) == Cardinality({k \in DOMAIN log : log[k].call = name})

\* C17 (as claimed): a resume invoked while an advance chain is pending does
\* not make the ended clip end again: the clip ends detected never outnumber
\* the clips started by playAt.
C17_ResumeAfterEndStartsNoChain == CallCount("clipEnd") <= songsPlayed

\* C18 (as claimed): after an accepted playAt no interstitial element is
\* left that plays or can still deliver its completion or failure event, and
\* the backend of the previous clip is not left running beside the new one.
C18_PlayAtReleasesResources ==
  [][songsPlayed' = songsPlayed + 1 =>
       /\ \A e \in BagToSet(pending') :
            e.type \notin {"ibStarting", "ibPlaying", "ibAborted"}
       /\ (~useSdkRef' => ~remotePlaying')]_vars

\* The elapsed value the clip restarted by the step begins from: the one the
\* remote start request in flight carries, or the one the new timer of the
\* preview element counts from
RestartElapsed ==
  IF useSdkRef'
    THEN {e.startElapsed : e \in {x \in BagToSet(pending') :
                                    x.type = "resumeStart"}}
    ELSE {t.startElapsed : t \in {x \in timers' : x.id = clipTimerRef'}}

\* The clip is at rest: no timer runs and no request or event is in flight
Quiescent == timers = {} /\ pending = EmptyBag

\* C20 (as claimed): a resume whose recomputed backend kind differs from the
\* kind that played the clip before the pause starts the clip fresh at
\* elapsed 0 with the clip window of the new backend.
C20_BackendSwitchStartsFresh ==
  [][(Resume /\ Quiescent /\ canUseSdk(Env, currentIndex) # useSdkRef) =>
       /\ RestartElapsed = {0}
       /\ clipDurationMs' = IF useSdkRef' THEN SDK_CLIP_DURATION_MS
                                          ELSE PREVIEW_CLIP_DURATION_MS]_vars

\* ---- the steps of an advance chain
\* The remote-pause calls of advance chains in flight
AdvancePauses == Pending("advPausePlay") \cup Pending("advPauseResume")

\* The number of events of the types in the bag p: continuations in flight
CountOf(p, types) ==
  BagCardinality([e \in {x \in BagToSet(p) : x.type \in types}
                    |-> CopiesIn(e, p)])

\* The continuations of step 3 of an advance chain: an interstitial being
\* started, or the settle delay before playAt(nextIndex)
Step3Types == {"settle", "ibStarting"}

\* C21: the advance chain of a Full clip issues the remote pause first: the
\* tick that ends the clip starts no interstitial and schedules no playAt.
\* When the call settles, resolved or rejected alike, the chain proceeds to
\* step 3 exactly once: the one call in flight is consumed and exactly one
\* continuation for its nextIndex is added.  A listener who does nothing
\* sees the chain leave the remote-pause step and, with no interstitial
\* selected, the next clip start.
C21_RemotePauseNeverBlocks ==
  /\ [][/\ (\E t \in timers : TickOf(t) /\ t.kind = "sdk"
                                /\ Len(log') > Len(log)) =>
             /\ log' = log \o <<Call("clipEnd", currentIndex, 0),
                                 Call("remotePause", NoIndex, 0)>>
             /\ CountOf(pending', {"advPausePlay", "advPauseResume"}) = 1
             /\ CountOf(pending', Step3Types) = 0
        /\ (AdvancePauseResolved \/ AdvancePauseRejected) =>
             \E e \in AdvancePauses :
               /\ CountOf(pending, {"advPausePlay", "advPauseResume"}) = 1
               /\ CountOf(pending', {"advPausePlay", "advPauseResume"}) = 0
               /\ CountOf(pending', Step3Types) = 1
               /\ \A x \in BagToSet(pending') :
                     x.type \in Step3Types => x.index = e.index
               /\ songsPlayed' = songsPlayed
       ]_vars
  /\ \A k \in 1..(MaxPlays - 1), n \in 1..3 :
       (AdvancePauses # {} /\ songsPlayed = k /\ inputs = n)
         ~> (inputs > n \/ (AdvancePauses = {}
                              /\ (selectedInBetweenSoundUrl = Null
                                    => songsPlayed = k + 1)))

\* C21 witness: the remote pause of an advance chain has failed, and the
\* clip at the next index has been started all the same.
C21_Witness ==
  /\ Len(log) >= 6 /\ songsPlayed = 2 /\ remotePlaying
  /\ LastCall.call = "remoteStart" /\ LastCall.index = 1
  /\ log[Len(log) - 1] = Call("remotePauseSettled", NoIndex, 0)
  /\ \E e \in Pending("playStart") : e.index = 1

\* The interstitial elements alive: starting, playing, or stopped with the
\* rejection of play() still to be delivered
InterstitialTypes == {"ibStarting", "ibPlaying", "ibAborted"}

\* C22: an interstitial's continuation runs at most once, on its natural end
\* or on the failure of its start, never on both: the continuations run so
\* far never outnumber the interstitials started, and the step that runs one
\* consumes the element's event, leaves inBetweenAudioRef detached from it,
\* sets the current index to the chain's nextIndex and calls
\* playTrackAtIndex(nextIndex) once.
C22_OneContinuationPerInterstitial ==
  /\ [](CallCount("interstitialEnded") + CallCount("interstitialFailed")
          + CountOf(pending, InterstitialTypes)
            <= CallCount("interstitialPlay"))
  /\ [][(InBetweenEnded \/ InBetweenPlayRejected) =>
          /\ CountOf(pending', InterstitialTypes)
               = CountOf(pending, InterstitialTypes) - 1
          /\ CallCount("interstitialEnded")' + CallCount("interstitialFailed")'
               = CallCount("interstitialEnded")
                   + CallCount("interstitialFailed") + 1
          /\ \E e \in BagToSet(pending) :
               /\ e.type \in InterstitialTypes
               /\ CopiesIn(e, pending') < CopiesIn(e, pending)
               /\ currentIndex' = e.index
               /\ IF Accepts(e.env, e.index)
                    THEN songsPlayed' = songsPlayed + 1 /\ clipElapsedMs' = 0
                    ELSE songsPlayed' = songsPlayed
          /\ (InBetweenRefs(St) # {} /\ InBetweenRefs(St)' # {} =>
                InBetweenRefs(St)' = InBetweenRefs(St))]_vars

\* C22 witness: an interstitial has ended, its continuation has started the
\* next clip, and nothing of it is left.
C22_Witness ==
  /\ CallCount("interstitialPlay") = 1 /\ CallCount("interstitialEnded") = 1
  /\ CountOf(pending, InterstitialTypes) = 0
  /\ songsPlayed = 2 /\ isPlaying /\ currentIndex = LastCall.index
  /\ LastCall.call \in StartCalls

\* C23 (as claimed): the interstitial selection is read when the remote-pause
\* step has settled: the chain then starts an interstitial if one is selected
\* at that instant and schedules playAt(nextIndex) directly if none is, for
\* a clip started by playAt and for a clip continued by resume alike.
C23_SelectionReadAtStep3 ==
  [][(AdvancePauseResolved \/ AdvancePauseRejected) =>
       IF selectedInBetweenSoundUrl # Null
         THEN /\ CountOf(pending', {"ibStarting"})
                   > CountOf(pending, {"ibStarting"})
              /\ \A e \in Pending("ibStarting")' :
                   e.ref => e.url = selectedInBetweenSoundUrl
         ELSE /\ CountOf(pending', {"settle"}) > CountOf(pending, {"settle"})
              /\ CountOf(pending', {"ibStarting"})
                   <= CountOf(pending, {"ibStarting"})]_vars

\* A track is playable when one of its two references is non-null
Playable(track) == track.uri \/ track.previewUrl

\* C24 (as claimed): a step of the advance chain (a step that is no input
\* of the listener) never makes a track without any reference the current
\* track.
C24_UnplayableNeverAutoSelected ==
  [][(inputs' = inputs /\ currentIndex' # currentIndex
        /\ currentIndex' # NoIndex)
       => Playable(tracks'[currentIndex' + 1])]_vars

\* C25 (as claimed): every backend selection reads the device readiness of
\* the instant of the call: a clip started by playAt, the one an advance
\* chain starts included, and a clip continued by resume run on the remote
\* device exactly when the device is ready at that instant, with a device
\* reference, and the track has a remote reference.
C25_ReadinessReadLive ==
  [][(songsPlayed' = songsPlayed + 1 \/ (Resume /\ isPlaying'))
       => useSdkRef' = canUseSdk(Env, currentIndex')]_vars

\* What pause() must leave alone in the state s reached from the state s0
PauseFrame(s0, s) ==
  /\ s.clipElapsedMs = s0.clipElapsedMs
  /\ s.currentIndex = s0.currentIndex
  /\ s.clipDurationMs = s0.clipDurationMs
  /\ s.songsPlayed = s0.songsPlayed

\* C26: the Pause button cancels the timer of the Clip Clock (the interval
\* clipTimerRef holds) and clears the ref, stops the interstitial
\* inBetweenAudioRef holds and detaches it, and issues the pause of the
\* backend in use: the remote pause call for a Full clip, is-playing
\* becoming false when that call settles, the element's pause() and
\* is-playing false at once for a Preview clip.  Elapsed, current index, clip
\* total duration and play-count are left unchanged by the click and by the
\* settling of the remote call.  In every reachable state, the one with
\* nothing loaded included, handlePause is safe to call, and to call again:
\* cancelling a cancelled timer changes nothing.
C26_PauseFrame ==
  /\ [][/\ Pause =>
             /\ PauseFrame(St, St')
             /\ clipTimerRef' = 0
             /\ timers' = {t \in timers : t.id # clipTimerRef}
             /\ InBetweenRefs(St') = {}
             /\ CountOf(pending', {"ibStarting", "ibPlaying"})
                  <= CountOf(pending, {"ibStarting", "ibPlaying"})
             /\ IF useSdkRef
                  THEN /\ CountOf(pending', {"userPause"})
                            = CountOf(pending, {"userPause"}) + 1
                       /\ audioRef' = audioRef
                  ELSE /\ ~isPlaying'
                       /\ audioRef'.state \in {"none", "paused"}
                       /\ Pending("userPause")' = Pending("userPause")
        /\ (UserPauseResolved \/ UserPauseRejected) =>
             ~isPlaying' /\ PauseFrame(St, St') /\ timers' = timers
       ]_vars
  /\ [](LET s1 == handlePause(St, Env)
            s2 == handlePause(s1, Env)
        IN  /\ PauseFrame(St, s1) /\ PauseFrame(St, s2)
            /\ s1.clipTimerRef = 0 /\ s2.clipTimerRef = 0
            /\ s2.timers = s1.timers
            /\ clearClipTimer(clearClipTimer(St)) = clearClipTimer(St)
            /\ (currentIndex = NoIndex /\ timers = {} /\ ~useSdkRef
                  => s1 = [St EXCEPT !.isPlaying = FALSE]))

\* C26 witness: a Full clip that had published progress has been paused: the
\* remote pause has settled, no timer is left, and the progress is retained.
C26_Witness ==
  /\ useSdkRef /\ ~isPlaying /\ ~remotePlaying /\ currentIndex # NoIndex
  /\ timers = {} /\ clipTimerRef = 0 /\ pending = EmptyBag
  /\ clipElapsedMs > 0 /\ clipElapsedMs < SDK_CLIP_DURATION_MS
  /\ songsPlayed = 1

\* The steps that call playTrackAtIndex: the rows and the Next and Prev
\* buttons, the settle timeout and the interstitial's end or failure
CallsPlayAt ==
  \/ \E i \in 0..Len(tracks) : PlayAt(i)
  \/ Next_ \/ Prev
  \/ SettleTimeout \/ InBetweenEnded \/ InBetweenPlayRejected

\* C27: a call playAt(index) from the row list with index in bounds and the
\* track playable on some backend sets the current index to index,
\* is-playing to true and elapsed to 0, clears the one-shot advance guard
\* and adds exactly 1 to the play-count.  The play-count changes in no other
\* way: every step leaves it or adds 1, a step that adds 1 is a call of
\* playTrackAtIndex with these effects, and pause, resume, the ticks and the
\* completions of remote calls leave it unchanged.
C27_PlayAtEffects ==
  [][/\ \A i \in 0..(Len(tracks) - 1) :
          (PlayAt(i) /\ (canUseSdk(Env, i) \/ canUsePreview(Env, i))) =>
             /\ currentIndex' = i /\ isPlaying' /\ clipElapsedMs' = 0
             /\ ~hasAdvancedRef' /\ songsPlayed' = songsPlayed + 1
     /\ songsPlayed' \in {songsPlayed, songsPlayed + 1}
     /\ songsPlayed' = songsPlayed + 1 =>
          /\ CallsPlayAt
          /\ isPlaying' /\ clipElapsedMs' = 0 /\ ~hasAdvancedRef'
          /\ currentIndex' # NoIndex
     /\ (Pause \/ Resume \/ Tick \/ Elapse \/ UserPauseResolved
           \/ UserPauseRejected \/ PlayStartResolved \/ ResumeStartResolved
           \/ AdvancePauseResolved \/ AdvancePauseRejected)
          => songsPlayed' = songsPlayed
    ]_vars

\* C27 witness: a second playAt from the row list was accepted, for the
\* preview-only track at index 2: the count is 2, elapsed 0, the guard clear.
C27_Witness ==
  /\ songsPlayed = 2 /\ inputs = 2 /\ isPlaying /\ clipElapsedMs = 0
  /\ ~hasAdvancedRef /\ currentIndex = 2 /\ tracks[3] = PreviewTrack
  /\ audioRef.state = "starting" /\ audioRef.index = 2

\* The listener has clicked Pause and nothing since
PausedByListener == inputs = 2

\* C28 (as claimed): from the click on Pause until the listener's next
\* action, no backend start call is issued, no timer tick is delivered, and
\* is-playing does not become true again.
C28_PauseHolds ==
  [][(PausedByListener /\ inputs' = inputs) =>
       /\ ~IssuesStart("remoteStart") /\ ~IssuesStart("previewPlay")
       /\ ~Tick
       /\ (~isPlaying => ~isPlaying')]_vars

\* C29: with every call succeeding and no input after the first playAt,
\* the clip that is the k-th started, at index i, ends and is followed by
\* the start of the clip at (i + 1) mod n as the (k+1)-th: playback never
\* stalls, and by repetition every index is played again and again (the
\* play-count of a run is capped at MaxPlays).
C29_AutoAdvanceLive ==
  \A k \in 1..(MaxPlays - 1), i \in 0..(MaxLen - 1) :
    (songsPlayed = k /\ currentIndex = i /\ isPlaying)
      ~> (/\ songsPlayed = k + 1 /\ currentIndex = (i + 1) % Len(tracks)
          /\ isPlaying /\ clipElapsedMs = 0
          /\ CallCount("clipEnd") = k)

\* C29 witness: started at the last index of a list of three, playback has
\* wrapped to index 0 and gone on to index 1.
C29_Witness ==
  /\ Len(tracks) = 3 /\ songsPlayed = 3 /\ currentIndex = 1 /\ isPlaying
  /\ CallCount("clipEnd") = 2 /\ log[2].index = 2
  /\ [j \in 1..3 |-> (SelectSeq(log, LAMBDA c : c.call = "remoteStart"))[j].index]
       = <<2, 0, 1>>

\* C30 (as claimed): whenever a timer of the Clip Clock is active, is-playing
\* is true.
C30_TimerImpliesPlaying == timers # {} => isPlaying

\* C31 (as claimed): the current index is null or an index into the current
\* track list.
C31_IndexInList ==
  currentIndex = NoIndex \/ (0 <= currentIndex /\ currentIndex < Len(tracks))

\* C32 (as claimed): is-playing implies that the current index is non-null.
C32_PlayingImpliesLoaded == isPlaying => currentIndex # NoIndex

\* C33 (as claimed): the published elapsed value lies between 0 and the clip
\* total duration, and the step that ends a clip publishes exactly the clip
\* total duration.
C33_ElapsedWithinDuration ==
  /\ [](0 <= clipElapsedMs /\ clipElapsedMs <= clipDurationMs)
  /\ [][(\E c \in DOMAIN advances : advances'[c] > advances[c])
          => clipElapsedMs' = clipDurationMs']_vars

====
